---- MODULE Spec2Model ----
(***************************************************************************)
(* The history engine of the clipboard manager: the storage package        *)
(* (LoadClipboardData, SaveClipboardData, SaveHistory, TogglePin), the     *)
(* daemon's capture loop, the one-shot Save command, the GUI actions that  *)
(* mutate the history and the GUI's search, over one history file and its  *)
(* temporary sibling.                                                      *)
(***************************************************************************)
EXTENDS Integers, Sequences, FiniteSets, TLC

VARIABLES
    file,       \* content of the canonical history file (a document)
    tmp,        \* content of the temporary sibling file (a document)
    fd,         \* per process: the inode its open temp-file descriptor names
    pc,         \* per process: position inside a step-wise SaveClipboardData
    arg,        \* per process: the serialized data of the save in progress
    lastSeen,   \* daemon: Run's lastSeen
    gui,        \* GUI: RunGUI's clipData (in-memory ClipboardData)
    last,       \* the handler that ran last, its input and its outcome
    stop,       \* daemon: stopCh is closed
    txt,        \* daemon: the text read by the tick in progress
    cfgFile,    \* content of the configuration file
    cfg,        \* the Config that config.Load returned
    clip,       \* content of the system clipboard, as the paste commands write it
    keys,       \* number of ctrl+v keystrokes xdotool has sent
    view        \* GUI: sortedHist, filtered, selectedIndex and searchEntry.Text

vars == <<file, tmp, fd, pc, arg, lastSeen, gui, last, stop, txt,
          cfgFile, cfg, clip, keys, view>>

\* the daemon's loop state besides lastSeen
loop == <<stop, txt>>

\* the configuration and the desktop: what the history handlers leave alone
env == <<cfgFile, cfg, clip, keys, view>>

\* the configuration and the desktop without the GUI's window
desk == <<cfgFile, cfg, clip, keys>>

----------------------------------------------------------------------------
(* Bounds and the text domain *)

\* storage.MaxHistory, scaled down (the program's default is 500)
MaxHistory == 3

\* how many entries a history given to the codec may hold
MaxLen == 4

\* A clipboard text that is not valid UTF-8 (one byte 0xFF), and U+FFFD
Invalid == "\\xff"
Replacement == "\\ufffd"
\* A whitespace-only clipboard text
Blank == " "

\* texts that are valid UTF-8 and not blank
ValidTexts == {"a", "b", "c", "d"}

\* texts that can be stored in a history file
Texts == ValidTexts \cup {Replacement}

\* what clipboard.ReadAll returns: any text, blank or not
ClipboardTexts == ValidTexts \cup {Blank}

\* what clipboard.ReadAll returns when the Save command runs
CmdTexts == {"a", "b", "c", Blank}

\* what clipboard.ReadAll returns when the selection is not valid UTF-8
ClipboardBytes == {"a", Invalid, Replacement}

Procs == {"daemon", "gui"}

----------------------------------------------------------------------------
(* The configuration file and config.Load *)

DefaultMaxHistory == 500
DefaultPollMS == 300
MinMaxHistory == 10
MaxMaxHistory == 10000
MinPollMS == 50
MaxPollMS == 5000

\* Config{MaxHistory, PollMS}
Config(m, p) == [MaxHistory |-> m, PollMS |-> p]

DefaultConfig == Config(DefaultMaxHistory, DefaultPollMS)

\* a configuration file: kind "nopath" (no HOME and no XDG_CONFIG_HOME),
\* "absent", "unreadable", "unparseable" (toml.Unmarshal fails), "parsed";
\* a parsed file holds each of the keys max_history and poll_ms or lacks it
ConfigFile(k, hm, m, hp, p) ==
    [kind |-> k, hasMax |-> hm, max |-> m, hasPoll |-> hp, poll |-> p]
NoConfig == ConfigFile("absent", FALSE, 0, FALSE, 0)

\* a Load that applies the lower bounds only
ClampLow(v, lo, hi) == IF v < lo THEN lo ELSE v

\* Load, lines 296-307: the value forced into lo..hi
Clamp(v, lo, hi) == IF v < lo THEN lo ELSE IF v > hi THEN hi ELSE v

\* config.Load on configuration file c: the Config and whether an error is
\* returned with it
Load(c) ==
    IF c.kind \in {"nopath", "absent"} THEN [err |-> FALSE, cfg |-> DefaultConfig]
    ELSE IF c.kind \in {"unreadable", "unparseable"}
        THEN [err |-> TRUE, cfg |-> DefaultConfig]
    ELSE LET m == IF c.hasMax THEN c.max ELSE DefaultConfig.MaxHistory
             p == IF c.hasPoll THEN c.poll ELSE DefaultConfig.PollMS
         IN [err |-> FALSE,
             cfg |-> Config(Clamp(m, MinMaxHistory, MaxMaxHistory),
                            Clamp(p, MinPollMS, MaxPollMS))]

\* the GUI's window state: sortedHist, filtered (Go indexes into sortedHist),
\* selectedIndex, and the text of the search entry (a sequence of characters)
View(s, f, i, q) == [sortedHist |-> s, filtered |-> f, selectedIndex |-> i, text |-> q]

\* no window
NoView == View(<<>>, <<>>, 0, <<>>)

\* before any command ran: no configuration loaded, nothing pasted
EnvInit ==
    /\ cfgFile = NoConfig
    /\ cfg = DefaultConfig
    /\ clip = ""
    /\ keys = 0
    /\ view = NoView

----------------------------------------------------------------------------
(* Sequence helpers *)

\* the elements of s satisfying Keep, in order (a Go filtering loop)
RECURSIVE Filter(_, _)
Filter(s, keep) ==
    IF s = <<>> THEN <<>>
    ELSE IF Head(s) \in keep THEN <<Head(s)>> \o Filter(Tail(s), keep)
    ELSE Filter(Tail(s), keep)

\* s[:n]
Take(s, n) == IF Len(s) <= n THEN s ELSE SubSeq(s, 1, n)

Range(s) == {s[i] : i \in 1..Len(s)}

NoDup(s) == \A i, j \in 1..Len(s) : s[i] = s[j] => i = j

\* a search that never finds the text
IndexOfAbsent(s, t) == -1

\* the Go index of the first occurrence of t in s, -1 when absent
IndexOf(s, t) ==
    IF t \in Range(s)
    THEN (CHOOSE i \in 1..Len(s) : s[i] = t /\ \A j \in 1..(i-1) : s[j] # t) - 1
    ELSE -1

\* s with the element at Go index i removed
RemoveAt(s, i) == SubSeq(s, 1, i) \o SubSeq(s, i + 2, Len(s))

----------------------------------------------------------------------------
(* ClipboardData and the JSON documents of the history file *)

\* ClipboardData{History, Pinned}; hnil / pnil: the slice / map is nil
ClipboardData(h, p) == [History |-> h, hnil |-> FALSE, Pinned |-> p, pnil |-> FALSE]
NilHistoryData(p) == [History |-> <<>>, hnil |-> TRUE, Pinned |-> p, pnil |-> FALSE]

\* documents: kind "absent" (no file), "object" ({"history":..,"pinned":..}),
\* "array" (legacy bare list), "null", "torn" (not a whole JSON value)
Doc(k, h, hn, p, pn) == [kind |-> k, history |-> h, hnull |-> hn, pinned |-> p, pnull |-> pn]
Absent == Doc("absent", <<>>, FALSE, {}, FALSE)
Torn   == Doc("torn", <<>>, FALSE, {}, FALSE)
Empty  == Doc("empty", <<>>, FALSE, {}, FALSE)
NullDoc == Doc("null", <<>>, FALSE, {}, FALSE)
ArrayDoc(h) == Doc("array", h, FALSE, {}, FALSE)
\* a whole JSON value of another shape: a number, a string, a list holding a
\* number
Mistyped == Doc("mistyped", <<>>, FALSE, {}, FALSE)

\* encoding/json writes a string coerced to valid UTF-8: every invalid byte
\* becomes U+FFFD
ToValidUTF8(t) == IF t = Invalid THEN Replacement ELSE t

EncodeList(s) == [i \in 1..Len(s) |-> ToValidUTF8(s[i])]

\* json.MarshalIndent(clipData): a nil slice or map is written as null
Marshal(d) ==
    Doc("object", EncodeList(d.History), d.hnil,
        {ToValidUTF8(t) : t \in d.Pinned}, d.pnil)

DecodeList(s) == [i \in 1..Len(s) |-> ToValidUTF8(s[i])]

\* a load's or save's outcome
Result(e, d) == [err |-> e, data |-> d]

\* a load that knows the structured record only
LoadRecordOnly(f, readOK) ==
    IF f.kind = "absent" THEN Result(FALSE, ClipboardData(<<>>, {}))
    ELSE IF ~readOK THEN Result(TRUE, ClipboardData(<<>>, {}))
    ELSE IF f.kind = "object" /\ ~f.hnull
        THEN Result(FALSE, ClipboardData(DecodeList(f.history),
                                         IF f.pnull THEN {} ELSE f.pinned))
    ELSE Result(TRUE, ClipboardData(<<>>, {}))

\* a load that answers a failure with a fresh empty state
LoadOrFresh(f, readOK) ==
    IF f.kind = "absent" \/ ~readOK THEN Result(FALSE, ClipboardData(<<>>, {}))
    ELSE IF f.kind = "object" /\ ~f.hnull
        THEN Result(FALSE, ClipboardData(DecodeList(f.history),
                                         IF f.pnull THEN {} ELSE f.pinned))
    ELSE IF f.kind = "array" THEN Result(FALSE, ClipboardData(DecodeList(f.history), {}))
    ELSE Result(FALSE, ClipboardData(<<>>, {}))

\* LoadClipboardData on a history file holding document f; readOK: os.ReadFile
\* of an existing file succeeds
LoadClipboardData(f, readOK) ==
    IF f.kind = "absent" THEN Result(FALSE, ClipboardData(<<>>, {}))
    ELSE IF ~readOK THEN Result(TRUE, ClipboardData(<<>>, {}))
    ELSE IF f.kind = "object" /\ ~f.hnull
        THEN Result(FALSE, ClipboardData(DecodeList(f.history),
                                         IF f.pnull THEN {} ELSE f.pinned))
    ELSE IF f.kind = "array" THEN Result(FALSE, ClipboardData(DecodeList(f.history), {}))
    ELSE IF f.kind = "null" THEN Result(FALSE, NilHistoryData({}))
    ELSE Result(TRUE, ClipboardData(<<>>, {}))

\* GetPinnedItems / GetUnpinnedItems, and the same loop inside SaveClipboardData
GetPinnedItems(d) == Filter(d.History, d.Pinned)
GetUnpinnedItems(d) == Filter(d.History, Range(d.History) \ d.Pinned)

\* a trimming that cuts the list to its first MaxHistory entries, pinned or not
TrimDropsPinned(d) ==
    IF Len(d.History) > MaxHistory
    THEN [d EXCEPT !.History = Take(d.History, MaxHistory), !.hnil = FALSE]
    ELSE d

\* a trimming that keeps MaxHistory unpinned entries beside the pinned ones
TrimKeepsMaxUnpinned(d) ==
    IF Len(d.History) > MaxHistory
    THEN [d EXCEPT !.History = Filter(d.History, d.Pinned)
                       \o Take(Filter(d.History, Range(d.History) \ d.Pinned), MaxHistory),
                   !.hnil = FALSE]
    ELSE d

\* the trimming of SaveClipboardData, lines 99-118: clipData as the save leaves it

Trim(d) ==
    IF Len(d.History) > MaxHistory
    THEN LET pinned == GetPinnedItems(d)
             unpinned == GetUnpinnedItems(d)
             maxUnpinned == IF MaxHistory - Len(pinned) < 0 THEN 0
                            ELSE MaxHistory - Len(pinned)
         IN [d EXCEPT !.History = pinned \o Take(unpinned, maxUnpinned),
                      !.hnil = FALSE]
    ELSE d

\* SaveClipboardData run as one step; writeOK: os.WriteFile of the temporary
\* file succeeds.  Gives the error, clipData as the save leaves it (the caller's
\* pointer), and the two files afterwards.
SaveClipboardData(d, writeOK, f, t) ==
    LET trimmed == Trim(d) IN
    IF writeOK
    THEN [err |-> FALSE, data |-> trimmed, file |-> Marshal(trimmed), tmp |-> Absent]
    ELSE [err |-> TRUE, data |-> trimmed, file |-> f, tmp |-> Torn]

\* LoadHistory
LoadHistory(f, readOK) == LoadClipboardData(f, readOK)

\* a history-only save that never reads the file's pinned set
SaveHistoryFresh(hist, readOK, writeOK, f, t) ==
    SaveClipboardData(ClipboardData(hist, {}), writeOK, f, t)

\* SaveHistory(hist): the pinned set is taken from the file; when the load
\* fails a fresh ClipboardData is used
SaveHistory(hist, readOK, writeOK, f, t) ==
    LET ld == LoadClipboardData(f, readOK)
        clipData == IF ld.err THEN ClipboardData(<<>>, {}) ELSE ld.data
    IN SaveClipboardData([clipData EXCEPT !.History = hist, !.hnil = FALSE],
                         writeOK, f, t)

\* a toggle that pins whatever the pin state was
TogglePinAlwaysPins(text, readOK, writeOK, f, t) ==
    LET ld == LoadClipboardData(f, readOK) IN
    IF ld.err
    THEN [err |-> TRUE, status |-> FALSE, file |-> f, tmp |-> t]
    ELSE LET sv == SaveClipboardData([ld.data EXCEPT !.Pinned = ld.data.Pinned \cup {text},
                                                     !.pnil = FALSE],
                                     writeOK, f, t)
         IN [err |-> sv.err, status |-> TRUE, file |-> sv.file, tmp |-> sv.tmp]

\* TogglePin(text): newStatus and the save's outcome
TogglePin(text, readOK, writeOK, f, t) ==
    LET ld == LoadClipboardData(f, readOK) IN
    IF ld.err
    THEN [err |-> TRUE, status |-> FALSE, file |-> f, tmp |-> t]
    ELSE LET newStatus == text \notin ld.data.Pinned
             pinned == IF newStatus THEN ld.data.Pinned \cup {text}
                       ELSE ld.data.Pinned \ {text}
             sv == SaveClipboardData([ld.data EXCEPT !.Pinned = pinned, !.pnil = FALSE],
                                     writeOK, f, t)
         IN [err |-> sv.err, status |-> newStatus, file |-> sv.file, tmp |-> sv.tmp]

----------------------------------------------------------------------------
(* The daemon's capture tick *)

\* a trimming that leaves whitespace in place
TrimSpaceKeepsBlank(t) == t

\* strings.TrimSpace
TrimSpace(t) == IF t = Blank THEN "" ELSE t

\* a capture that pushes txt to the front without removing its old occurrence
CapturePushFront(d, t) ==
    [d EXCEPT !.History = Take(<<t>> \o d.History, MaxHistory), !.hnil = FALSE]

\* a capture that leaves the cut to capacity to the save
CaptureNoTruncate(d, t) ==
    LET existsAt == IndexOf(d.History, t)
        removed == IF existsAt > 0 THEN RemoveAt(d.History, existsAt) ELSE d.History
    IN [d EXCEPT !.History = <<t>> \o removed, !.hnil = FALSE]

\* Run, lines 48-72: the history a tick saves for text txt (existsAt # 0)
Capture(d, t) ==
    LET existsAt == IndexOf(d.History, t)
        removed == IF existsAt > 0 THEN RemoveAt(d.History, existsAt) ELSE d.History
        front == <<t>> \o removed
    IN [d EXCEPT !.History = Take(front, MaxHistory), !.hnil = FALSE]

\* the record kept of the handler that ran last: its name and its outcome
Last(op, out) == [op |-> op, out |-> out]

\* which I/O call of a handler fails, if any
IO == {"ok", "clipboard", "load", "write"}

Idle == \A p \in Procs : pc[p] = "idle"

\* a loop that marks every text it tried to save as seen
SeenAlways(old, t, err) == t

\* Run, lines 74-78: lastSeen after the save of t returned
Seen(old, t, err) == IF err THEN old ELSE t

\* the body of one tick of Run, lines 29-79: clipboard.ReadAll gave t
Tick(t, io) ==
    IF io = "clipboard" \/ TrimSpace(t) = "" \/ t = lastSeen
    THEN /\ UNCHANGED <<file, tmp, lastSeen>>
         /\ last' = Last("tick", IF io = "clipboard" THEN "clipboard" ELSE "skip")
    ELSE LET ld == LoadClipboardData(file, io # "load") IN
         IF ld.err
         THEN /\ UNCHANGED <<file, tmp, lastSeen>>
              /\ last' = Last("tick", "load")
         ELSE LET existsAt == IndexOf(ld.data.History, t) IN
              IF existsAt = 0
              THEN /\ lastSeen' = t
                   /\ UNCHANGED <<file, tmp>>
                   /\ last' = Last("tick", "top")
              ELSE LET sv == SaveClipboardData(Capture(ld.data, t), io # "write",
                                               file, tmp)
                   IN /\ file' = sv.file
                      /\ tmp' = sv.tmp
                      /\ lastSeen' = Seen(lastSeen, t, sv.err)
                      /\ last' = Last("tick", IF sv.err THEN "write"
                                      ELSE IF existsAt > 0 THEN "moved"
                                      ELSE "added")

\* one tick of Run as one step: the ticker fires and clipboard.ReadAll gives t
Run(t, io) ==
    /\ pc["daemon"] = "idle"
    /\ pc["gui"] \in {"idle", "panic", "closed"}
    /\ UNCHANGED <<fd, pc, arg, gui, loop, env>>
    /\ Tick(t, io)

----------------------------------------------------------------------------
(* The one-shot Save command *)

\* clipboard.Save: clipboard.ReadAll gives t
Save(t, io) ==
    /\ Idle
    /\ UNCHANGED <<fd, pc, arg, gui, lastSeen, loop, env>>
    /\ IF io = "clipboard" \/ TrimSpace(t) = ""
       THEN /\ UNCHANGED <<file, tmp>>
            /\ last' = Last("save", IF io = "clipboard" THEN "clipboard" ELSE "empty")
       ELSE LET ld == LoadHistory(file, io # "load") IN
            IF ld.err
            THEN /\ UNCHANGED <<file, tmp>>
                 /\ last' = Last("save", "load")
            ELSE LET hist == IF Len(ld.data.History) = 0 \/ ld.data.History[1] # t
                             THEN <<t>> \o ld.data.History
                             ELSE ld.data.History
                     sv == SaveHistory(hist, io # "reload", io # "write", file, tmp)
                 IN /\ file' = sv.file
                    /\ tmp' = sv.tmp
                    /\ last' = Last("save", IF sv.err THEN "write"
                                    ELSE IF io = "reload" THEN "fresh"
                                    ELSE IF IndexOf(ld.data.History, t) > 0 THEN "known"
                                    ELSE IF IndexOf(ld.data.History, t) = 0 THEN "top"
                                    ELSE "added")

----------------------------------------------------------------------------
(* The GUI's actions on its in-memory clipData *)

\* a view that lists the unpinned entries first
buildUnpinnedFirst(d) == GetUnpinnedItems(d) \o GetPinnedItems(d)

\* buildSortedHistory
buildSortedHistory(d) == GetPinnedItems(d) \o GetUnpinnedItems(d)

\* which I/O call of a GUI handler or of the Save command fails, if any;
\* "reload": the second load of the handler (line 334, SaveHistory's own load)
GuiIO == {"ok", "load", "write", "reload"}

\* togglePinSelected on the selected item.  The reload's error is dropped
\* (line 334): on a failed reload clipData is nil and refreshAll, which reads
\* clipData.History, panics.
togglePinOn(item, io) ==
    /\ pc["gui"] = "idle"
    /\ io \in GuiIO
    /\ UNCHANGED <<fd, arg, lastSeen, loop>>
    /\ LET r == TogglePin(item, io # "load", io # "write", file, tmp)
           ld == LoadClipboardData(r.file, io # "reload")
       IN
       /\ file' = r.file
       /\ tmp' = r.tmp
       /\ gui' = IF r.err \/ ld.err THEN gui ELSE ld.data
       /\ pc' = IF ~r.err /\ ld.err THEN [pc EXCEPT !["gui"] = "panic"] ELSE pc
       /\ last' = Last("pin", IF r.err THEN io
                       ELSE IF ld.err THEN "panic"
                       ELSE IF item \notin Range(LoadClipboardData(file, TRUE).data.History)
                            THEN "absent"
                       ELSE IF r.status THEN "pinned" ELSE "unpinned")

\* togglePinSelected with any shown item selected, the window left aside
togglePinSelected(item, io) ==
    /\ item \in Range(buildSortedHistory(gui))
    /\ togglePinOn(item, io)
    /\ UNCHANGED env

\* deleteSelected on the selected item, lines 351-365
deleteOn(item, io) ==
    /\ Idle
    /\ io \in {"ok", "write"}
    /\ UNCHANGED <<fd, pc, arg, lastSeen, loop>>
    /\ LET newHist == Filter(gui.History, Range(gui.History) \ {item})
           sv == SaveClipboardData([gui EXCEPT !.History = newHist, !.hnil = FALSE,
                                               !.Pinned = gui.Pinned \ {item}],
                                   io # "write", file, tmp)
       IN /\ file' = sv.file
          /\ tmp' = sv.tmp
          /\ gui' = sv.data
          /\ last' = Last("delete", IF sv.err THEN "write" ELSE "saved")

\* deleteSelected with any shown item selected, the window left aside
deleteSelected(item, io) ==
    /\ item \in Range(buildSortedHistory(gui))
    /\ deleteOn(item, io)
    /\ UNCHANGED env

\* a clear that empties the history and keeps the pinned set
clearAllKeepsPinned(io) ==
    /\ Idle
    /\ io \in {"ok", "write"}
    /\ UNCHANGED <<fd, pc, arg, lastSeen, loop, env>>
    /\ LET sv == SaveClipboardData(ClipboardData(<<>>, gui.Pinned), io # "write", file, tmp)
       IN /\ file' = sv.file
          /\ tmp' = sv.tmp
          /\ gui' = sv.data
          /\ last' = Last("clear", IF sv.err THEN "write" ELSE "saved")

\* clearAll, confirmed: lines 392-397
clearData(io) ==
    /\ Idle
    /\ io \in {"ok", "write"}
    /\ UNCHANGED <<fd, pc, arg, lastSeen, loop>>
    /\ LET sv == SaveClipboardData(ClipboardData(<<>>, {}), io # "write", file, tmp)
       IN /\ file' = sv.file
          /\ tmp' = sv.tmp
          /\ gui' = sv.data
          /\ last' = Last("clear", IF sv.err THEN "write" ELSE "saved")

\* clearAll, confirmed, the window left aside
clearAll(io) == clearData(io) /\ UNCHANGED env

\* refreshHistory, lines 374-379
reloadData(io) ==
    /\ Idle
    /\ io \in {"ok", "load"}
    /\ UNCHANGED <<fd, pc, arg, lastSeen, file, tmp, loop>>
    /\ LET ld == LoadClipboardData(file, io # "load") IN
       /\ gui' = IF ld.err THEN gui ELSE ld.data
       /\ last' = Last("refresh", IF ld.err THEN "load" ELSE "loaded")

\* refreshHistory (and RunGUI's first load), the window left aside
refreshHistory(io) == reloadData(io) /\ UNCHANGED env

----------------------------------------------------------------------------
(* The daemon and the GUI on one history file, every handler one step *)

\* the state after construction when the history file holds document f: the
\* daemon has seen nothing, the GUI has loaded the file
InitWith(f) ==
    /\ file = f
    /\ tmp = Absent
    /\ fd = [p \in Procs |-> "none"]
    /\ pc = [p \in Procs |-> "idle"]
    /\ arg = [p \in Procs |-> Absent]
    /\ lastSeen = ""
    /\ gui = LoadClipboardData(f, TRUE).data
    /\ last = Last("init", "")
    /\ stop = FALSE
    /\ txt = ""
    /\ EnvInit

\* first start: no history file yet
Init == InitWith(Absent)

\* the handlers, every I/O call succeeding, the clipboard holding a text of T
NextOn(T) ==
    \/ \E t \in T : Run(t, "ok")
    \/ \E item \in Texts : togglePinSelected(item, "ok")
    \/ \E item \in Texts : deleteSelected(item, "ok")
    \/ clearAll("ok")
    \/ refreshHistory("ok")

NextDaemon == NextOn(ClipboardTexts)

SpecDaemon == Init /\ [][NextDaemon]_vars

\* a history file written while MaxHistory was set higher than it is now
\* (MaxHistory is configurable)
OverCapacity == Marshal(ClipboardData(<<"a", "b", "c", "d">>, {}))

InitLowered == InitWith(OverCapacity)

SpecLowered == InitLowered /\ [][NextDaemon]_vars

\* the clipboard holds texts that are not valid UTF-8
NextBytes == NextOn(ClipboardBytes)

SpecBytes == Init /\ [][NextBytes]_vars

\* the Save command beside the GUI; the history a Save command extends is
\* capped at MaxLen entries
NextCmd ==
    \/ \E t \in CmdTexts : Len(file.history) < MaxLen /\ Save(t, "ok")
    \/ \E item \in Texts : togglePinSelected(item, "ok")
    \/ \E item \in Texts : deleteSelected(item, "ok")
    \/ refreshHistory("ok")

SpecCmd == Init /\ [][NextCmd]_vars

----------------------------------------------------------------------------
(* SaveClipboardData and LoadClipboardData as functions of any ClipboardData *)

\* the lists over S of at most n texts
RECURSIVE ListsOf(_, _)
ListsOf(S, n) ==
    IF n = 0 THEN {<<>>}
    ELSE ListsOf(S, n - 1) \cup
         {<<x>> \o s : x \in S, s \in {r \in ListsOf(S, n - 1) : Len(r) = n - 1}}

\* the states given to the codec: every history of at most MaxLen texts with
\* any pinned set, and the states whose slice or map is nil
CodecStates ==
    {ClipboardData(h, P) : h \in ListsOf(ValidTexts, MaxLen), P \in SUBSET ValidTexts}
    \cup {NilHistoryData(P) : P \in SUBSET {"a", "b"}}
    \cup {[ClipboardData(h, {}) EXCEPT !.pnil = TRUE] : h \in {<<>>, <<"a">>, <<"b", "a">>}}

InitCodec ==
    /\ file = Absent
    /\ tmp = Absent
    /\ fd = [p \in Procs |-> "none"]
    /\ pc = [p \in Procs |-> "idle"]
    /\ arg = [p \in Procs |-> Absent]
    /\ lastSeen = ""
    /\ gui \in CodecStates
    /\ last = Last("init", "")
    /\ stop = FALSE
    /\ txt = ""
    /\ EnvInit

\* SaveClipboardData(clipData) on the state held in gui
SaveState ==
    /\ last.op = "init"
    /\ LET sv == SaveClipboardData(gui, TRUE, file, tmp) IN
       /\ file' = sv.file
       /\ tmp' = sv.tmp
       /\ gui' = sv.data
       /\ last' = Last("SaveClipboardData",
                       IF Len(gui.History) > MaxHistory THEN "trimmed" ELSE "saved")
    /\ UNCHANGED <<fd, pc, arg, lastSeen, loop, env>>

\* LoadClipboardData() of what the save wrote
LoadState ==
    /\ last.op = "SaveClipboardData"
    /\ LET ld == LoadClipboardData(file, TRUE) IN
       /\ gui' = IF ld.err THEN gui ELSE ld.data
       /\ last' = Last("LoadClipboardData", IF ld.err THEN "error" ELSE "loaded")
    /\ UNCHANGED <<file, tmp, fd, pc, arg, lastSeen, loop, env>>

NextCodec == SaveState \/ LoadState

SpecCodec == InitCodec /\ [][NextCodec]_vars

----------------------------------------------------------------------------
(* SaveClipboardData step by step: os.WriteFile of the temporary file (open *)
(* with O_CREATE|O_TRUNC, write, close), then os.Rename over the canonical *)
(* path.  Both processes use the same temporary path.                      *)

\* the length of a serialization beyond its fixed frame, every text one byte
SerLen(c) == 9 * Len(c.history) + 15 * Cardinality(c.pinned)

\* a file holding c after data is written at its start
Overlay(c, data) ==
    IF c.kind = "empty" \/ c = data THEN data
    ELSE IF c.kind = "object" /\ SerLen(data) >= SerLen(c) THEN data
    ELSE Torn

\* the states the racing saves are given
RaceStates ==
    {ClipboardData(<<"a">>, {}), ClipboardData(<<"b", "a">>, {}),
     ClipboardData(<<"c", "b", "a">>, {"a"})}

\* SaveClipboardData lines 94-121: trim and serialize
SaveStart(p, d) ==
    /\ pc[p] = "idle"
    /\ arg' = [arg EXCEPT ![p] = Marshal(Trim(d))]
    /\ pc' = [pc EXCEPT ![p] = "open"]
    /\ last' = Last(p, "started")
    /\ UNCHANGED <<file, tmp, fd, lastSeen, gui, loop, env>>

\* a save that writes the canonical file in place
WriteOpenCanonical(p) ==
    /\ pc[p] = "open"
    /\ file' = Empty
    /\ fd' = [fd EXCEPT ![p] = "canon"]
    /\ pc' = [pc EXCEPT ![p] = "write"]
    /\ last' = Last(p, "opened")
    /\ UNCHANGED <<tmp, arg, lastSeen, gui, loop, env>>

\* os.WriteFile: the temporary file is created, or truncated when it exists
WriteOpen(p) ==
    /\ pc[p] = "open"
    /\ tmp' = Empty
    /\ fd' = [fd EXCEPT ![p] = "tmp"]
    /\ pc' = [pc EXCEPT ![p] = "write"]
    /\ last' = Last(p, "opened")
    /\ UNCHANGED <<file, arg, lastSeen, gui, loop, env>>

\* the files after content c is written through p's descriptor
WriteThrough(p, c) ==
    /\ tmp' = IF fd[p] = "tmp" THEN c ELSE tmp
    /\ file' = IF fd[p] = "canon" THEN c ELSE file

\* os.WriteFile: the data is written and the file closed
WriteData(p) ==
    /\ pc[p] = "write"
    /\ WriteThrough(p, Overlay(IF fd[p] = "tmp" THEN tmp ELSE file, arg[p]))
    /\ fd' = [fd EXCEPT ![p] = "none"]
    /\ pc' = [pc EXCEPT ![p] = "rename"]
    /\ last' = Last(p, "written")
    /\ UNCHANGED <<arg, lastSeen, gui, loop, env>>

\* os.WriteFile fails after writing a part: SaveClipboardData returns the error
WriteFail(p) ==
    /\ pc[p] = "write"
    /\ WriteThrough(p, Torn)
    /\ fd' = [fd EXCEPT ![p] = "none"]
    /\ pc' = [pc EXCEPT ![p] = "idle"]
    /\ last' = Last(p, "error")
    /\ UNCHANGED <<arg, lastSeen, gui, loop, env>>

\* os.Rename(tmp, p): the temporary file's inode becomes the canonical file;
\* with no temporary file the rename fails and the error is returned
Rename(p) ==
    /\ pc[p] = "rename"
    /\ pc' = [pc EXCEPT ![p] = "idle"]
    /\ IF tmp.kind = "absent"
       THEN /\ last' = Last(p, "error")
            /\ UNCHANGED <<file, tmp, fd>>
       ELSE /\ file' = tmp
            /\ tmp' = Absent
            /\ fd' = [q \in Procs |-> IF fd[q] = "tmp" THEN "canon"
                                     ELSE IF fd[q] = "canon" THEN "unlinked"
                                     ELSE fd[q]]
            /\ last' = Last(p, "saved")
    /\ UNCHANGED <<arg, lastSeen, gui, loop, env>>

\* os.Rename fails (the directory is not writable): the error is returned
RenameFail(p) ==
    /\ pc[p] = "rename"
    /\ pc' = [pc EXCEPT ![p] = "idle"]
    /\ last' = Last(p, "error")
    /\ UNCHANGED <<file, tmp, fd, arg, lastSeen, gui, loop, env>>

\* the process is killed inside the save; killed inside the write, it may
\* leave a part of the data written
Interrupt(p, partial) ==
    /\ pc[p] \in {"open", "write", "rename"}
    /\ partial => pc[p] = "write"
    /\ IF partial THEN WriteThrough(p, Torn) ELSE UNCHANGED <<file, tmp>>
    /\ pc' = [pc EXCEPT ![p] = "idle"]
    /\ fd' = [fd EXCEPT ![p] = "none"]
    /\ last' = Last(p, "interrupted")
    /\ UNCHANGED <<arg, lastSeen, gui, loop, env>>

\* the daemon and the GUI saving concurrently, no I/O call failing
NextRace ==
    \E p \in Procs :
        \/ \E d \in RaceStates : SaveStart(p, d)
        \/ WriteOpen(p)
        \/ WriteData(p)
        \/ Rename(p)

SpecRace == Init /\ [][NextRace]_vars

\* one saver, whose writes and renames can fail and which can be killed
NextOneSaver ==
    \/ \E d \in RaceStates : SaveStart("daemon", d)
    \/ WriteOpen("daemon")
    \/ WriteData("daemon")
    \/ WriteFail("daemon")
    \/ Rename("daemon")
    \/ RenameFail("daemon")
    \/ \E partial \in BOOLEAN : Interrupt("daemon", partial)

SpecOneSaver == Init /\ [][NextOneSaver]_vars

----------------------------------------------------------------------------
(* Claims about the daemon and the GUI *)

\* the entries and the pinned set the history file holds
Entries == file.history
Pinned == file.pinned

\* C1: a pinned entry present in entries leaves entries only through its own
\* delete or a clear, never through a capture's capacity trimming, while at most
\* MaxHistory texts are pinned.
C1_PinnedNeverTrimmed ==
    [][\A t \in Texts :
          (/\ t \in Pinned
           /\ t \in Range(Entries)
           /\ Cardinality(Pinned) <= MaxHistory
           /\ t \notin Range(file'.history))
          => (deleteSelected(t, "ok") \/ clearAll("ok"))]_vars

\* C2: the persisted entries never hold two equal texts.
C2_NoDuplicateEntries == NoDup(Entries)

C7_TogglePinNotFound ==
    [][\A item \in Texts :
          (/\ togglePinSelected(item, "ok")
           /\ item \notin Range(LoadClipboardData(file, TRUE).data.History))
          => (TogglePin(item, TRUE, TRUE, file, tmp).err /\ file' = file)]_vars

----------------------------------------------------------------------------
(* Claims about the Save command *)

\* how often t occurs in s
Occurrences(s, t) == Cardinality({k \in 1..Len(s) : s[k] = t})

\* C4: a Save command whose text is found at position i > 0 of the history
\* saves a history that starts with that text and holds it exactly once.
C4_SaveMovesToFront ==
    [][\A t \in CmdTexts :
          (Save(t, "ok") /\ IndexOf(LoadClipboardData(file, TRUE).data.History, t) > 0)
          => (/\ Len(file'.history) > 0
              /\ file'.history[1] = t
              /\ Occurrences(file'.history, t) = 1)]_vars

----------------------------------------------------------------------------
(* Claims about SaveClipboardData and LoadClipboardData *)

\* the entries of h that are in P / not in P, in order
PinnedOf(h, P) == LET pinned(x) == x \in P IN SelectSeq(h, pinned)
UnpinnedOf(h, P) == LET unpinned(x) == x \notin P IN SelectSeq(h, unpinned)

Max(a, b) == IF a >= b THEN a ELSE b
Min(a, b) == IF a <= b THEN a ELSE b

C6_RetentionPolicy ==
    [][SaveState =>
          LET h == gui.History
              pinned == PinnedOf(h, gui.Pinned)
              unpinned == UnpinnedOf(h, gui.Pinned)
              keep == Min(Len(unpinned), Max(0, MaxHistory - Len(pinned)))
              kept == IF Len(h) > MaxHistory
                      THEN pinned \o SubSeq(unpinned, 1, keep)
                      ELSE h
          IN gui'.History = kept /\ file'.history = kept]_vars

\* a save has trimmed a list whose pinned entry "c" stood behind unpinned ones
C6_Witness ==
    /\ last = Last("SaveClipboardData", "trimmed")
    /\ Pinned = {"c"}
    /\ Len(Entries) = MaxHistory
    /\ Entries[1] = "c" /\ Entries[2] = "a" /\ Entries[3] = "b"

\* C10: a state of at most MaxHistory entries, saved and then loaded, comes back
\* without error with the same entries in the same order and the same pinned set.
C10_RoundTrip ==
    [][(LoadState /\ Len(gui.History) <= MaxHistory)
          => (/\ last'.out = "loaded"
              /\ gui'.History = gui.History
              /\ gui'.Pinned = gui.Pinned)]_vars

----------------------------------------------------------------------------
(* Claims about the temp-file-then-rename protocol *)

\* C8: while the daemon and the GUI save concurrently, the canonical file
\* always holds the whole serialization of a state given to a save (or does
\* not exist yet), and no save fails.
C8_RacingSavesAllOrNothing ==
    /\ file.kind = "absent" \/ file \in {Marshal(Trim(d)) : d \in RaceStates}
    /\ last.out # "error"

\* C9: with one saver, only a successful rename changes the canonical file: a
\* save that fails or is interrupted while it writes the temporary file, or
\* whose rename fails, leaves it as it was, and the failure is returned.
C9_FailedSaveKeepsFile ==
    [][/\ (file' # file) => (Rename("daemon") /\ last'.out = "saved")
       /\ (WriteFail("daemon") \/ RenameFail("daemon"))
              => (last'.out = "error" /\ file' = file)
       /\ (\E partial \in BOOLEAN : Interrupt("daemon", partial)) => file' = file]_vars

\* a write failed after an earlier save succeeded: the canonical file is whole
\* and the temporary file holds a part
C9_Witness ==
    /\ last = Last("daemon", "error")
    /\ tmp = Torn
    /\ file = Marshal(ClipboardData(<<"b", "a">>, {}))

----------------------------------------------------------------------------
(* The capture loop with failing I/O calls, and its stop signal *)

\* the texts the clipboard holds in these runs
LoopTexts == {"a", "b", "c", Blank}

\* ticks whose clipboard read, load or save may fail, beside GUI deletes
NextFaults ==
    \/ \E t \in LoopTexts, io \in IO : Run(t, io)
    \/ \E item \in Texts : deleteSelected(item, "ok")
    \/ refreshHistory("ok")

SpecFaults == Init /\ [][NextFaults]_vars

\* main's signal goroutine: close(stop)
Signal ==
    /\ ~stop
    /\ stop' = TRUE
    /\ last' = Last("signal", "closed")
    /\ UNCHANGED <<file, tmp, fd, pc, arg, lastSeen, gui, txt, env>>

\* Run, lines 28-29: the select takes the ticker and clipboard.ReadAll gives t
ReadAll(t) ==
    /\ pc["daemon"] = "idle"
    /\ pc' = [pc EXCEPT !["daemon"] = "tick"]
    /\ txt' = t
    /\ last' = Last("tick", "read")
    /\ UNCHANGED <<file, tmp, fd, arg, lastSeen, gui, stop, env>>

\* Run, lines 30-79: the rest of the tick that read txt
TickBody ==
    /\ pc["daemon"] = "tick"
    /\ Tick(txt, "ok")
    /\ pc' = [pc EXCEPT !["daemon"] = "idle"]
    /\ UNCHANGED <<fd, arg, gui, loop, env>>

\* a loop that returns as soon as stopCh is closed, inside a tick too
StopPreempts ==
    /\ pc["daemon"] \in {"idle", "tick"}
    /\ stop
    /\ pc' = [pc EXCEPT !["daemon"] = "stopped"]
    /\ last' = Last("Run", "nil")
    /\ UNCHANGED <<file, tmp, fd, arg, lastSeen, gui, loop, env>>

\* Run, lines 25-27: the select takes the closed stopCh and Run returns nil
StopObserved ==
    /\ pc["daemon"] = "idle"
    /\ stop
    /\ pc' = [pc EXCEPT !["daemon"] = "stopped"]
    /\ last' = Last("Run", "nil")
    /\ UNCHANGED <<file, tmp, fd, arg, lastSeen, gui, loop, env>>

NextStop ==
    \/ Signal
    \/ \E t \in LoopTexts : ReadAll(t)
    \/ TickBody
    \/ StopObserved

\* a tick that has started runs on; the select takes each of its ready cases
\* again and again (Go chooses among the ready cases at random)
SpecStop ==
    Init /\ [][NextStop]_vars /\ WF_vars(TickBody) /\ SF_vars(StopObserved)

----------------------------------------------------------------------------
(* Claims about the capture loop *)

\* the history a tick loads
Loaded == LoadClipboardData(file, TRUE).data

\* text t stands at position 0 of history h
AtFront(h, t) == Len(h) > 0 /\ h[1] = t

\* C11: a tick changes lastSeen only to the text it captured, and only when
\* that text is then at position 0 of the persisted entries; a tick whose save
\* fails leaves lastSeen and the file as they were, so the same text is not
\* skipped at the next tick.
C11_LastSeenAfterSave ==
    [][\A t \in LoopTexts, io \in IO :
          Run(t, io) =>
              /\ lastSeen' # lastSeen
                     => (lastSeen' = t /\ AtFront(file'.history, t))
              /\ (io = "write" /\ t # Blank /\ t # lastSeen
                  /\ ~AtFront(Loaded.History, t))
                     => (lastSeen' = lastSeen /\ file' = file /\ t # lastSeen')]_vars

\* the save of "b" failed after "a" was captured
C11_Witness ==
    /\ last = Last("tick", "write")
    /\ lastSeen = "a"
    /\ Entries = <<"a">>
    /\ tmp = Torn

\* C12: a tick that reads the text the tick before it captured changes neither
\* the entries nor the ordered view, and a tick whose text is at position 0
\* writes no file and only sets lastSeen.
C12_CaptureIdempotent ==
    [][\A t \in LoopTexts, io \in IO :
          /\ (Run(t, io) /\ last.op = "tick" /\ last.out \in {"added", "moved", "top"}
              /\ t = lastSeen)
                 => (/\ file' = file
                     /\ lastSeen' = lastSeen
                     /\ buildSortedHistory(LoadClipboardData(file', TRUE).data)
                            = buildSortedHistory(Loaded))
          /\ (Run(t, "ok") /\ AtFront(Loaded.History, t))
                 => (file' = file /\ tmp' = tmp /\ lastSeen' = t)]_vars

\* a tick found its text "a" at position 0 while lastSeen was another text
C12_Witness ==
    /\ last = Last("tick", "top")
    /\ lastSeen = "a"
    /\ Entries = <<"a">>

\* C13: a tick whose clipboard read fails, whose text is blank or whose text
\* equals lastSeen changes nothing, and the loop goes on.
C13_SkippedTickChangesNothing ==
    [][\A t \in LoopTexts, io \in IO :
          (Run(t, io) /\ (io = "clipboard" \/ t = Blank \/ t = lastSeen))
              => (/\ UNCHANGED <<file, tmp, lastSeen, gui>>
                  /\ pc'["daemon"] = "idle")]_vars

\* a clipboard read failed while the history held two entries
C13_Witness ==
    /\ last = Last("tick", "clipboard")
    /\ Entries = <<"b", "a">>
    /\ lastSeen = "b"

\* C14: once stopCh is closed Run returns nil, it returns only from the
\* select between ticks, and a tick in progress then is completed first.
C14_StopTerminates ==
    /\ stop ~> (pc["daemon"] = "stopped" /\ last = Last("Run", "nil"))
    /\ [][pc'["daemon"] = "stopped" => pc["daemon"] = "idle"]_vars
    /\ (stop /\ pc["daemon"] = "tick") ~> (pc["daemon"] = "idle" /\ last.op = "tick")

\* Run has returned after two captures
C14_Witness ==
    /\ pc["daemon"] = "stopped"
    /\ stop
    /\ last = Last("Run", "nil")
    /\ Entries = <<"b", "a">>

----------------------------------------------------------------------------
(* The GUI's search: fuzzyMatch and applyFilter.  A text is a sequence of  *)
(* one-character strings here; Go indices start at 0.                      *)

\* the longest entry, the longest query and the longest list searched
MaxText == 3
MaxQuery == 2
MaxShown == 2

\* the characters of entries and of queries
EntryChars == {"a", "B", "_"}
QueryChars == {"a", "b", "B", "_", " "}

\* the sequences over S of n elements, and of 1..n elements
SeqsOfLen(S, n) == [1..n -> S]
SeqsUpTo(S, n) == UNION {SeqsOfLen(S, k) : k \in 1..n}

EntryTexts == SeqsUpTo(EntryChars, MaxText)
Queries == {<<>>} \cup SeqsUpTo(QueryChars, MaxQuery)

\* strings.ToLower
LowerChar(c) == IF c = "A" THEN "a" ELSE IF c = "B" THEN "b" ELSE c
ToLower(s) == [i \in 1..Len(s) |-> LowerChar(s[i])]

\* strings.Contains
Contains(text, pattern) ==
    \E k \in 0..(Len(text) - Len(pattern)) : SubSeq(text, k + 1, k + Len(pattern)) = pattern

\* a trimming of the query that leaves whitespace in place
TrimQueryKeepsSpace(query) == query

\* strings.TrimSpace on a query
TrimQuery(query) ==
    LET kept == {i \in 1..Len(query) : query[i] # " "} IN
    IF kept = {} THEN <<>>
    ELSE SubSeq(query, CHOOSE i \in kept : \A j \in kept : i <= j,
                       CHOOSE i \in kept : \A j \in kept : i >= j)

\* fuzzyMatch, line 224: the word boundaries
IsBoundary(c) == c \in {" ", "/", "_", "-"}

\* fuzzyMatch, lines 203-232: the loop from text index i on, and the result
RECURSIVE fuzzyWalk(_, _, _, _, _, _, _)
fuzzyWalk(pattern, text, i, pIdx, score, lastMatchIdx, wordStart) ==
    IF i < Len(text) /\ pIdx < Len(pattern)
    THEN LET hit == text[i + 1] = pattern[pIdx + 1]
             gain == (IF lastMatchIdx = i - 1 THEN 15 ELSE 5)
                     + (IF wordStart THEN 10 ELSE 0)
         IN fuzzyWalk(pattern, text, i + 1,
                      IF hit THEN pIdx + 1 ELSE pIdx,
                      IF hit THEN score + gain ELSE score,
                      IF hit THEN i ELSE lastMatchIdx,
                      IsBoundary(text[i + 1]))
    ELSE IF pIdx < Len(pattern) THEN -1 ELSE score

\* fuzzyMatch
fuzzyMatch(pattern, text) ==
    LET p == ToLower(pattern)
        x == ToLower(text)
    IN IF p = <<>> THEN 0
       ELSE IF Contains(x, p) THEN 1000 + Len(p) * 10
       ELSE fuzzyWalk(p, x, 0, 0, 0, -1, TRUE)

\* a filter that keeps the entries the query did not match as well
MatchesAll(hist, query) ==
    [i \in 1..Len(hist) |-> [index |-> i - 1, score |-> fuzzyMatch(query, hist[i])]]

\* applyFilter, lines 245-256: the matches of query in hist, in list order
Matches(hist, query) ==
    LET all == [i \in 1..Len(hist) |->
                   [index |-> i - 1, score |-> fuzzyMatch(query, hist[i])]]
        matched(m) == m.score >= 0
    IN SelectSeq(all, matched)

\* sort.Slice with less(a, b) = a.score > b.score: an ordering of the matches
\* by falling score.  sort.Slice is not stable: a slice of more than 12
\* elements is sorted by a quicksort that may leave elements of equal score in
\* any order, and the lists searched here stand for such slices.
SortSlice(matches) ==
    LET n == Len(matches)
        perms == {f \in [1..n -> 1..n] : \A i, j \in 1..n : f[i] = f[j] => i = j}
    IN {[i \in 1..n |-> matches[f[i]]] : f \in
           {g \in perms : \A i, j \in 1..n :
                i < j => matches[g[i]].score >= matches[g[j]].score}}

\* applyFilter, lines 237-268: the values filtered can get
Filtered(hist, query) ==
    LET q == TrimQuery(query) IN
    IF q = <<>>
    THEN {[i \in 1..Len(hist) |-> i - 1]}
    ELSE {[i \in 1..Len(m) |-> m[i].index] : m \in SortSlice(Matches(hist, q))}

\* RunGUI's sortedHist
sortedHist == buildSortedHistory(gui)

\* applyFilter(query): last.out holds the query and filtered
applyFilter(query) ==
    /\ Idle
    /\ \E f \in Filtered(sortedHist, query) :
           last' = Last("applyFilter", [query |-> query, filtered |-> f])
    /\ UNCHANGED <<file, tmp, fd, pc, arg, lastSeen, gui, loop, env>>

\* the GUI holds a history of at most MaxShown distinct entries, none pinned
InitSearch ==
    /\ file = Absent
    /\ tmp = Absent
    /\ fd = [p \in Procs |-> "none"]
    /\ pc = [p \in Procs |-> "idle"]
    /\ arg = [p \in Procs |-> Absent]
    /\ lastSeen = ""
    /\ gui \in {ClipboardData(h, {}) :
                   h \in {r \in {<<>>} \cup SeqsUpTo(EntryTexts, MaxShown) : NoDup(r)}}
    /\ last = Last("init", "")
    /\ stop = FALSE
    /\ txt = ""
    /\ EnvInit

\* one search of the list
NextSearch == last.op = "init" /\ \E query \in Queries : applyFilter(query)

SpecSearch == InitSearch /\ [][NextSearch]_vars

\* queries of up to MaxDashes hyphens against two entries: the same hyphens
\* (a substring match) and the hyphens broken by an "x" (a fuzzy match)
MaxDashes == 68

Dashes(n) == [i \in 1..n |-> "-"]
Broken(n) == Dashes(n - 1) \o <<"x", "-">>
LongQueries == {Dashes(n) : n \in 1..MaxDashes}

InitLongQuery ==
    /\ file = Absent
    /\ tmp = Absent
    /\ fd = [p \in Procs |-> "none"]
    /\ pc = [p \in Procs |-> "idle"]
    /\ arg = [p \in Procs |-> Absent]
    /\ lastSeen = ""
    /\ gui \in UNION {{ClipboardData(<<Dashes(n), Broken(n)>>, {}),
                       ClipboardData(<<Broken(n), Dashes(n)>>, {})} : n \in 1..MaxDashes}
    /\ last = Last("init", "")
    /\ stop = FALSE
    /\ txt = ""
    /\ EnvInit

NextLongQuery == last.op = "init" /\ \E query \in LongQueries : applyFilter(query)

SpecLongQuery == InitLongQuery /\ [][NextLongQuery]_vars

----------------------------------------------------------------------------
(* Claims about the search *)

\* the Go indices of text that a left-to-right walk matches to pattern, from
\* text index i on with k pattern characters consumed
RECURSIVE GreedyHits(_, _, _, _)
GreedyHits(pattern, text, i, k) ==
    IF i >= Len(text) \/ k >= Len(pattern) THEN {}
    ELSE IF text[i + 1] = pattern[k + 1]
         THEN {i} \cup GreedyHits(pattern, text, i + 1, k + 1)
         ELSE GreedyHits(pattern, text, i + 1, k)

IsSubsequence(pattern, text) == Cardinality(GreedyHits(pattern, text, 0, 0)) = Len(pattern)

\* entry e holds query q as a substring / holds it only as a subsequence,
\* letter case ignored
SubstringMatch(q, e) == Contains(ToLower(e), ToLower(q))
FuzzyOnlyMatch(q, e) == ~SubstringMatch(q, e) /\ IsSubsequence(ToLower(q), ToLower(e))

\* the row of filtered f that shows Go index i of the ordered view
RowOf(f, i) == CHOOSE k \in 1..Len(f) : f[k] = i

\* a search has run: its query as typed and as trimmed, and its result
Searched == last.op = "applyFilter"
typed == last.out.query
trimmed == TrimQuery(last.out.query)
filtered == last.out.filtered

\* C15: for a non-empty query the result is in falling score order, and
\* entries of equal score keep the order they have in the ordered view.
C15_RankedStable ==
    (Searched /\ trimmed # <<>>)
        => LET sc(k) == fuzzyMatch(trimmed, sortedHist[filtered[k] + 1])
           IN \A i, j \in 1..Len(filtered) :
                  i < j => (sc(i) > sc(j) \/ (sc(i) = sc(j) /\ filtered[i] < filtered[j]))

\* C16: an entry that holds the query as a substring scores strictly more
\* than an entry that matches it only as a subsequence, and is ranked above it.
C16_SubstringOutranksFuzzy ==
    (Searched /\ trimmed # <<>>)
        => \A i, j \in 1..Len(sortedHist) :
               (SubstringMatch(trimmed, sortedHist[i]) /\ FuzzyOnlyMatch(trimmed, sortedHist[j]))
                   => (/\ fuzzyMatch(trimmed, sortedHist[i]) = 1000 + 10 * Len(trimmed)
                       /\ 1000 + 10 * Len(trimmed) > fuzzyMatch(trimmed, sortedHist[j])
                       /\ RowOf(filtered, i - 1) < RowOf(filtered, j - 1))

\* the fuzzy score as stated: 5 for every matched character, 10 more when the
\* character before it was matched too, 10 more at position 0 or after a
\* boundary character
StatedFuzzyScore(pattern, text) ==
    LET hits == GreedyHits(pattern, text, 0, 0) IN
    5 * Cardinality(hits)
    + 10 * Cardinality({i \in hits : (i - 1) \in hits})
    + 10 * Cardinality({i \in hits : i = 0 \/ IsBoundary(text[i])})

\* C17: the score of an entry that matches only as a subsequence is the
\* stated sum; a first match at position 0 gets no consecutive-match bonus.
C17_FuzzyScore ==
    (Searched /\ trimmed # <<>>)
        => \A i \in 1..Len(sortedHist) :
               FuzzyOnlyMatch(trimmed, sortedHist[i])
                   => fuzzyMatch(trimmed, sortedHist[i])
                          = StatedFuzzyScore(ToLower(trimmed), ToLower(sortedHist[i]))

\* the Go indices of the entries of the ordered view that match q
MatchingRows(q) ==
    {i - 1 : i \in {k \in 1..Len(sortedHist) :
                       SubstringMatch(q, sortedHist[k])
                       \/ IsSubsequence(ToLower(q), ToLower(sortedHist[k]))}}

\* C18: for a query that is not empty or blank the result holds exactly the
\* entries that match the query as typed, each once.
C18_ResultIsMatchesOfTyped ==
    (Searched /\ trimmed # <<>>)
        => (Range(filtered) = MatchingRows(typed) /\ NoDup(filtered))

\* C18 as amended: the result holds exactly the entries that match the query
\* with its surrounding whitespace trimmed, each once, when that is non-empty.
C18_ResultIsMatchesOfTrimmed ==
    (Searched /\ trimmed # <<>>)
        => (Range(filtered) = MatchingRows(trimmed) /\ NoDup(filtered))

\* the query "b" showed, of the entries "a" and "B_a", the second only
C18_Witness ==
    /\ Searched
    /\ typed = <<"b">>
    /\ gui.History = << <<"a">>, <<"B", "_", "a">> >>
    /\ filtered = <<1>>

\* C19: for an empty or whitespace-only query the result is every entry of
\* the ordered view, once, in its order.
C19_EmptyQueryShowsAll ==
    (Searched /\ \A k \in 1..Len(typed) : typed[k] = " ")
        => filtered = [i \in 1..Len(sortedHist) |-> i - 1]

\* a query of two spaces showed both entries of the list
C19_Witness ==
    /\ Searched
    /\ typed = <<" ", " ">>
    /\ gui.History = << <<"a">>, <<"B">> >>
    /\ filtered = <<0, 1>>

----------------------------------------------------------------------------
(* Claims about the GUI's delete *)

\* s without the elements equal to x
Without(s, x) == LET other(e) == e # x IN SelectSeq(s, other)

\* C20: after a successful delete of x the persisted entries and the persisted
\* pinned set are the ones persisted before without x, the others in order.
C20_DeleteRemovesOnlyX ==
    [][\A x \in Texts :
          deleteSelected(x, "ok")
              => (/\ x \notin Range(file'.history)
                  /\ x \notin file'.pinned
                  /\ file'.history = Without(Entries, x)
                  /\ file'.pinned = Pinned \ {x})]_vars

----------------------------------------------------------------------------
(* The GUI's handlers and the Save command with failing I/O calls *)

\* a history file with a pinned entry, as an earlier session left it
Stocked == Marshal(ClipboardData(<<"a", "b", "c">>, {"b"}))

\* a history file longer than MaxHistory (MaxHistory is configurable)
Overfull == Marshal(ClipboardData(<<"a", "b", "c", "d">>, {"c"}))

InitGui == \E f \in {Stocked, Overfull} : InitWith(f)

\* the text the clipboard holds while the GUI is open
GuiTexts == {"d"}

NextGui ==
    \/ \E t \in GuiTexts : Run(t, "ok")
    \/ \E t \in GuiTexts, io \in {"ok", "reload"} :
          Len(file.history) < MaxHistory /\ Save(t, io)
    \/ \E item \in Texts, io \in GuiIO : togglePinSelected(item, io)
    \/ \E item \in Texts, io \in {"ok", "write"} : deleteSelected(item, io)
    \/ \E io \in {"ok", "write"} : clearAll(io)
    \/ \E io \in {"ok", "load"} : refreshHistory(io)

SpecGui == InitGui /\ [][NextGui]_vars

\* C21: after a confirmed clear whose save succeeded, the persisted entries and
\* the persisted pinned set are both empty, whatever they were before
C21_ClearEmptiesStore ==
    last = Last("clear", "saved") =>
        /\ file.kind = "object"
        /\ file.history = <<>>
        /\ file.pinned = {}
        /\ Loaded = ClipboardData(<<>>, {})

\* a clear of a store the daemon had added to
C21_Witness ==
    /\ last = Last("clear", "saved")
    /\ lastSeen = "d"
    /\ file.history = <<>>

\* the bijections of 1..n
Perms(n) == {f \in [1..n -> 1..n] : \A i, j \in 1..n : f[i] = f[j] => i = j}

\* C22: the ordered view is a permutation of the entries that lists every
\* pinned entry before every unpinned one, and keeps the history's relative
\* order among the pinned and among the unpinned entries
C22_ViewPinnedFirst ==
    LET h == gui.History
        v == buildSortedHistory(gui)
        isPinned(t) == t \in gui.Pinned
    IN /\ Len(v) = Len(h)
       /\ \E f \in Perms(Len(h)) :
            /\ \A i \in 1..Len(h) : v[i] = h[f[i]]
            /\ \A i, j \in 1..Len(h) :
                 (i < j /\ isPinned(v[i]) = isPinned(v[j])) => f[i] < f[j]
       /\ \A i, j \in 1..Len(v) : (isPinned(v[j]) /\ ~isPinned(v[i])) => j < i
       /\ NoDup(h) => (NoDup(v) /\ Range(v) = Range(h))

\* a history whose pinned entries lie behind unpinned ones
C22_Witness ==
    /\ gui.History = <<"a", "b", "c", "d">>
    /\ gui.Pinned = {"b", "d"}
    /\ buildSortedHistory(gui) = <<"b", "d", "a", "c">>

\* C23: a successful TogglePin(text) flips the membership of text in the
\* persisted pinned set and returns the new pin state; it changes no other
\* pin, and it leaves the entries as they were when they number at most
\* MaxHistory
C23_TogglePinFlips ==
    [][\A text \in Texts :
        (togglePinSelected(text, "ok") /\ last'.out # "panic") =>
            LET before == Loaded
                after == Loaded'
            IN /\ file'.kind = "object"
               /\ (text \in after.Pinned) <=> (text \notin before.Pinned)
               /\ after.Pinned \ {text} = before.Pinned \ {text}
               /\ last'.out \in {"pinned", "unpinned"} =>
                     ((last'.out = "pinned") <=> (text \in after.Pinned))
               /\ Len(before.History) <= MaxHistory =>
                     after.History = before.History]_vars

\* an entry was unpinned while another one stayed pinned
C23_Witness ==
    /\ last = Last("pin", "unpinned")
    /\ file.pinned # {}
    /\ Len(file.history) = MaxHistory

\* C24: when the save of a delete, a clear or a pin toggle fails, the error is
\* shown and the state is left unchanged: the entries and the pinned set the
\* GUI keeps working on are the ones it had before, and so is the file
C24_FailedSaveLeavesState ==
    [][(last'.op \in {"delete", "clear", "pin"} /\ last'.out = "write") =>
          /\ gui'.History = gui.History
          /\ gui'.Pinned = gui.Pinned
          /\ file' = file]_vars

\* C25: no load or save failure inside SaveHistory, TogglePin or the GUI's
\* reload after a pin toggle is swallowed: a handler whose load failed reports
\* it, the GUI never goes on without a state, and a Save command never
\* replaces the file's pinned set by an empty one
C25_NoSwallowedError ==
    [][/\ pc'["gui"] # "panic"
       /\ last'.op = "pin" /\ last'.out \in {"load", "write"} => file' = file
       /\ last'.op = "save" =>
            /\ last'.out # "fresh"
            /\ LoadClipboardData(file', TRUE).data.Pinned = Loaded.Pinned]_vars

----------------------------------------------------------------------------
(* LoadClipboardData as a function of the history file's content *)

\* the longest list a history file of this part holds
MaxListed == 2

\* how far beyond the positions of a history a paste index lies
MaxBeyond == 2

\* the contents of a history file: no file, a torn or empty file, JSON values
\* of another shape, legacy lists, and records with or without their fields
Docs ==
    {Absent, Torn, Empty, NullDoc, Mistyped}
    \cup {ArrayDoc(h) : h \in ListsOf(Texts, MaxListed)}
    \cup {Doc("object", h, hn, P, pn) :
            h \in ListsOf({"a", "b"}, MaxListed), hn \in BOOLEAN,
            P \in SUBSET {"a", "c"}, pn \in BOOLEAN}

InitLoad ==
    /\ file \in Docs
    /\ tmp = Absent
    /\ fd = [p \in Procs |-> "none"]
    /\ pc = [p \in Procs |-> "idle"]
    /\ arg = [p \in Procs |-> Absent]
    /\ lastSeen = ""
    /\ gui = ClipboardData(<<>>, {})
    /\ last = Last("init", "")
    /\ stop = FALSE
    /\ txt = ""
    /\ EnvInit

\* LoadClipboardData() of the file; gui holds the state it returned
LoadDoc(readOK) ==
    /\ last.op = "init"
    /\ LET ld == LoadClipboardData(file, readOK) IN
       /\ gui' = IF ld.err THEN gui ELSE ld.data
       /\ last' = Last("LoadClipboardData",
                       IF ld.err THEN (IF readOK THEN "error" ELSE "unreadable")
                       ELSE "loaded")
    /\ UNCHANGED <<file, tmp, fd, pc, arg, lastSeen, loop, env>>

NextLoad == \E readOK \in BOOLEAN : LoadDoc(readOK)

SpecLoad == InitLoad /\ [][NextLoad]_vars

\* the content is the structured record with a history field
IsRecord(f) == f.kind = "object" /\ ~f.hnull

\* the content is a bare list of strings
IsList(f) == f.kind = "array"

\* C26: load returns an empty state and no error when the file does not
\* exist, and an error, never a state, when the content is neither the
\* structured record with a history field nor a bare list of strings
C26_LoadAbsentOrError ==
    last.op = "LoadClipboardData" =>
        /\ file.kind = "absent" =>
              (last.out = "loaded" /\ gui = ClipboardData(<<>>, {}))
        /\ (file.kind # "absent" /\ ~IsRecord(file) /\ ~IsList(file)) =>
              last.out \in {"error", "unreadable"}

\* C27: a legacy file, a bare ordered list of strings, loads without error as
\* the state with those entries in that order and an empty pinned set
C27_LegacyListLoads ==
    (last.op = "LoadClipboardData" /\ IsList(file) /\ last.out # "unreadable") =>
        /\ last.out = "loaded"
        /\ gui.History = file.history
        /\ ~gui.hnil
        /\ gui.Pinned = {}

\* a legacy list of two entries was loaded
C27_Witness ==
    /\ last = Last("LoadClipboardData", "loaded")
    /\ file = ArrayDoc(<<"b", "a">>)
    /\ gui.History = <<"b", "a">>

----------------------------------------------------------------------------
\* C28: right after a successful capture of a text t the first persisted
\* entry is t, also when the history is cut to capacity and holds pinned
\* entries
C28_CapturedIsFirst ==
    [][\A t \in ClipboardTexts :
        (Run(t, "ok") /\ last'.out \in {"added", "moved", "top"}) =>
            /\ file'.kind = "object"
            /\ Loaded'.History # <<>>
            /\ Loaded'.History[1] = t]_vars

\* a new text was captured into a full history that keeps a pinned entry
C28_Witness ==
    /\ last = Last("tick", "added")
    /\ Len(file.history) = MaxHistory
    /\ file.history[1] = lastSeen
    /\ lastSeen \notin file.pinned
    /\ \E i \in 2..Len(file.history) : file.history[i] \in file.pinned

----------------------------------------------------------------------------
(* config.Load as a function of the configuration file *)

\* the integers a configuration file holds for a key: around every limit,
\* the defaults, and far outside
ConfigValues ==
    {-2147483647, -1, 0, 9, 10, 11, 49, 50, 51, 300, 500, 4999, 5000, 5001,
     9999, 10000, 10001, 2147483647}

ConfigFiles ==
    {ConfigFile(k, FALSE, 0, FALSE, 0) :
        k \in {"nopath", "absent", "unreadable", "unparseable"}}
    \cup {ConfigFile("parsed", TRUE, m, TRUE, p) : m, p \in ConfigValues}
    \cup {ConfigFile("parsed", TRUE, m, FALSE, 0) : m \in ConfigValues}
    \cup {ConfigFile("parsed", FALSE, 0, TRUE, p) : p \in ConfigValues}
    \cup {ConfigFile("parsed", FALSE, 0, FALSE, 0)}

InitConfig ==
    /\ file = Absent
    /\ tmp = Absent
    /\ fd = [p \in Procs |-> "none"]
    /\ pc = [p \in Procs |-> "idle"]
    /\ arg = [p \in Procs |-> Absent]
    /\ lastSeen = ""
    /\ gui = ClipboardData(<<>>, {})
    /\ last = Last("init", "")
    /\ stop = FALSE
    /\ txt = ""
    /\ cfgFile \in ConfigFiles
    /\ cfg = DefaultConfig
    /\ clip = ""
    /\ keys = 0
    /\ view = NoView

\* cfg, err := config.Load()
LoadConfig ==
    /\ last.op = "init"
    /\ cfg' = Load(cfgFile).cfg
    /\ last' = Last("Load", IF Load(cfgFile).err THEN "error" ELSE "nil")
    /\ UNCHANGED <<file, tmp, fd, pc, arg, lastSeen, gui, loop, cfgFile, clip, keys, view>>

NextConfig == LoadConfig

SpecConfig == InitConfig /\ [][NextConfig]_vars

\* C29: whatever the configuration file holds and however its load ends, the
\* Config that Load returns has MaxHistory in 10..10000 and PollMS in
\* 50..5000, with 500 and 300 for a value that was not read
C29_ConfigWithinLimits ==
    last.op = "Load" =>
        /\ cfg.MaxHistory \in 10..10000
        /\ cfg.PollMS \in 50..5000
        /\ (cfgFile.kind # "parsed" \/ ~cfgFile.hasMax) => cfg.MaxHistory = 500
        /\ (cfgFile.kind # "parsed" \/ ~cfgFile.hasPoll) => cfg.PollMS = 300
        /\ (cfgFile.kind = "parsed" /\ cfgFile.hasMax /\ cfgFile.max \in 10..10000)
              => cfg.MaxHistory = cfgFile.max
        /\ (cfgFile.kind = "parsed" /\ cfgFile.hasPoll /\ cfgFile.poll \in 50..5000)
              => cfg.PollMS = cfgFile.poll

\* a file whose max_history is above the limit and which has no poll_ms
C29_Witness ==
    /\ last = Last("Load", "nil")
    /\ cfgFile = ConfigFile("parsed", TRUE, 10001, FALSE, 0)
    /\ cfg = Config(10000, 300)

----------------------------------------------------------------------------
(* The paste-by-position command *)

\* a paste that takes the newest entry whatever the index
EntryFirst(hist, idx) == hist[1]

\* PasteByIndex, line 59: hist[idx]
Entry(hist, idx) == hist[idx + 1]

\* which call of PasteByIndex fails, if any
PasteIO == {"ok", "load", "clipboard", "xdotool"}

\* PasteByIndex(idx)
PasteByIndex(idx, io) ==
    /\ Idle
    /\ UNCHANGED <<file, tmp, fd, pc, arg, lastSeen, gui, loop, cfgFile, cfg, view>>
    /\ LET ld == LoadHistory(file, io # "load")
           hist == ld.data.History
       IN IF ld.err
          THEN /\ UNCHANGED <<clip, keys>>
               /\ last' = Last("PasteByIndex", "load")
          ELSE IF Len(hist) = 0
          THEN /\ UNCHANGED <<clip, keys>>
               /\ last' = Last("PasteByIndex", "history empty")
          ELSE IF idx < 0 \/ idx >= Len(hist)
          THEN /\ UNCHANGED <<clip, keys>>
               /\ last' = Last("PasteByIndex", "index out of range")
          ELSE IF io = "clipboard"
          THEN /\ UNCHANGED <<clip, keys>>
               /\ last' = Last("PasteByIndex", "write clipboard")
          ELSE /\ clip' = Entry(hist, idx)
               /\ keys' = IF io = "xdotool" THEN keys ELSE keys + 1
               /\ last' = Last("PasteByIndex",
                               IF io = "xdotool" THEN "xdotool paste failed" ELSE "nil")

\* the indexes given to the command: every position of the longest history,
\* and the integers on both sides
PasteIndexes == (0 - MaxBeyond)..(MaxListed + MaxBeyond)

InitPaste ==
    /\ file \in Docs
    /\ tmp = Absent
    /\ fd = [p \in Procs |-> "none"]
    /\ pc = [p \in Procs |-> "idle"]
    /\ arg = [p \in Procs |-> Absent]
    /\ lastSeen = ""
    /\ gui = ClipboardData(<<>>, {})
    /\ last = Last("init", "")
    /\ stop = FALSE
    /\ txt = ""
    /\ EnvInit

\* one run of the command
NextPaste ==
    /\ last.op = "init"
    /\ \E idx \in PasteIndexes, io \in PasteIO : PasteByIndex(idx, io)

SpecPaste == InitPaste /\ [][NextPaste]_vars

\* the entries the command finds in the history file
PasteEntries == LoadClipboardData(file, TRUE).data.History

\* C30: PasteByIndex with an index outside [0, len(entries)), any index on an
\* empty history included, returns an error, writes nothing to the clipboard,
\* sends no paste keystroke and leaves the history alone; with an index inside
\* the range it writes exactly entries[index] to the clipboard
C30_PasteByIndexInRange ==
    [][\A idx \in PasteIndexes, io \in PasteIO :
        PasteByIndex(idx, io) =>
            /\ file' = file
            /\ ~(idx \in 0..(Len(PasteEntries) - 1)) =>
                  /\ last'.out # "nil"
                  /\ clip' = clip
                  /\ keys' = keys
            /\ (idx \in 0..(Len(PasteEntries) - 1) /\ io \notin {"load", "clipboard"}) =>
                  /\ clip' = PasteEntries[idx + 1]
                  /\ io = "ok" => (last'.out = "nil" /\ keys' = keys + 1)]_vars

\* the second entry of a history was pasted
C30_Witness ==
    /\ last = Last("PasteByIndex", "nil")
    /\ file.history = <<"a", "b">>
    /\ clip = "b"
    /\ keys = 1

----------------------------------------------------------------------------
(* The GUI's window: the list shown, the selection, and the keys *)

\* the characters of a text of the history: each text of Texts is one character
Chars(t) == <<t>>

Spelled(hist) == [i \in 1..Len(hist) |-> Chars(hist[i])]

\* RunGUI, lines 118-122 and 173: the window over clipData d when it opens
ViewOf(d) ==
    LET s == buildSortedHistory(d) IN View(s, [i \in 1..Len(s) |-> i - 1], 0, <<>>)

\* the guard of copySelected, pasteSelected, togglePinSelected and
\* deleteSelected (lines 293-295, 311-313, 324-326, 347-349)
CanAct ==
    /\ view.selectedIndex >= 0
    /\ view.selectedIndex < Len(view.filtered)
    /\ view.filtered[view.selectedIndex + 1] < Len(view.sortedHist)

\* sortedHist[filtered[selectedIndex]]
Selected == view.sortedHist[view.filtered[view.selectedIndex + 1] + 1]

\* refreshAll: sortedHist is rebuilt from clipData d
refreshAll(v, d) == [v EXCEPT !.sortedHist = buildSortedHistory(d)]

\* applyFilter(query) on window v: the windows it can leave
applyFilterOn(v, query) ==
    {[v EXCEPT !.filtered = f, !.selectedIndex = 0] :
        f \in Filtered(Spelled(v.sortedHist), query)}

\* the queries typed into the search entry
ViewQueries == {<<>>, <<"b">>, <<"x">>}

\* searchEntry.OnChanged: the user edits the search text to query
onChanged(query) ==
    /\ Idle
    /\ query # view.text
    /\ view' \in applyFilterOn([view EXCEPT !.text = query], query)
    /\ last' = Last("filter", "changed")
    /\ UNCHANGED <<file, tmp, fd, pc, arg, lastSeen, gui, loop, desk>>

\* a move down that does not stop at the last row
moveDownUnbounded(v) == [v EXCEPT !.selectedIndex = v.selectedIndex + 1]

\* moveUp
moveUp(v) ==
    IF v.selectedIndex > 0 THEN [v EXCEPT !.selectedIndex = v.selectedIndex - 1] ELSE v

\* moveDown
moveDown(v) ==
    IF v.selectedIndex < Len(v.filtered) - 1
    THEN [v EXCEPT !.selectedIndex = v.selectedIndex + 1]
    ELSE v

\* the Up key, Ctrl+K
onUp ==
    /\ Idle
    /\ view' = moveUp(view)
    /\ last' = Last("moveUp", IF view' = view THEN "stay" ELSE "moved")
    /\ UNCHANGED <<file, tmp, fd, pc, arg, lastSeen, gui, loop, desk>>

\* the Down key, Ctrl+J
onDown ==
    /\ Idle
    /\ view' = moveDown(view)
    /\ last' = Last("moveDown", IF view' = view THEN "stay" ELSE "moved")
    /\ UNCHANGED <<file, tmp, fd, pc, arg, lastSeen, gui, loop, desk>>

\* searchEntry.OnSubmitted, lines 286-287: the selection is put on row 0
selectFirst(v) == [v EXCEPT !.selectedIndex = 0]

\* searchEntry.OnSubmitted (Enter): copyAndClose on row 0 of a list that is
\* not empty
onSubmitted ==
    /\ Idle
    /\ UNCHANGED <<file, tmp, fd, arg, lastSeen, gui, loop, cfgFile, cfg, keys>>
    /\ IF Len(view.filtered) > 0
       THEN /\ view' = selectFirst(view)
            /\ LET idx == view'.filtered[view'.selectedIndex + 1] IN
               /\ clip' = IF idx < Len(view.sortedHist) THEN view.sortedHist[idx + 1]
                          ELSE clip
               /\ last' = Last("submit", IF idx < Len(view.sortedHist) THEN "copied"
                                         ELSE "none")
            /\ pc' = [pc EXCEPT !["gui"] = "closed"]
       ELSE /\ UNCHANGED <<view, clip, pc>>
            /\ last' = Last("submit", "none")

\* pasteSelected (Ctrl+Enter): clipboard.Paste of the selected entry, then
\* the window closes
onPaste ==
    /\ Idle
    /\ UNCHANGED <<file, tmp, fd, arg, lastSeen, gui, loop, cfgFile, cfg, view>>
    /\ IF CanAct
       THEN /\ clip' = Selected
            /\ keys' = keys + 1
            /\ pc' = [pc EXCEPT !["gui"] = "closed"]
            /\ last' = Last("paste", "pasted")
       ELSE /\ UNCHANGED <<clip, keys, pc>>
            /\ last' = Last("paste", "none")

\* a handler that found nothing selected
NoAct(op) ==
    /\ Idle
    /\ last' = Last(op, "none")
    /\ UNCHANGED <<file, tmp, fd, pc, arg, lastSeen, gui, loop, env>>

\* togglePinSelected (Ctrl+P) on the window's selection: after a toggle that
\* returned no error, refreshAll and applyFilter(searchEntry.Text)
onPin(io) ==
    IF ~CanAct THEN NoAct("pin")
    ELSE /\ togglePinOn(Selected, io)
         /\ UNCHANGED desk
         /\ IF last'.out \in {"load", "write", "panic"}
            THEN view' = view
            ELSE view' \in applyFilterOn(refreshAll(view, gui'), view.text)

\* deleteSelected (Delete, Ctrl+D, Ctrl+Backspace) on the window's selection
onDelete(io) ==
    IF ~CanAct THEN NoAct("delete")
    ELSE /\ deleteOn(Selected, io)
         /\ UNCHANGED desk
         /\ IF last'.out = "write"
            THEN view' = view
            ELSE view' \in applyFilterOn(refreshAll(view, gui'), view.text)

\* searchEntry.SetText(""): an Entry whose text changes calls OnChanged
SetTextEmpty(v) ==
    IF v.text = <<>> THEN {v} ELSE applyFilterOn([v EXCEPT !.text = <<>>], <<>>)

\* refreshHistory (Ctrl+R): lines 380-385 after a load without error
shortcutRefresh(io) ==
    /\ reloadData(io)
    /\ UNCHANGED desk
    /\ IF last'.out = "load"
       THEN view' = view
       ELSE view' \in {refreshAll([v EXCEPT !.selectedIndex = 0], gui') :
                          v \in SetTextEmpty(view)}

\* clearAll (Ctrl+L), confirmed: refreshAll after a save without error
shortcutClear(io) ==
    /\ clearData(io)
    /\ UNCHANGED desk
    /\ view' = IF last'.out = "write" THEN view ELSE refreshAll(view, gui')

\* the GUI opens on a stocked history file
InitView ==
    /\ file = Stocked
    /\ tmp = Absent
    /\ fd = [p \in Procs |-> "none"]
    /\ pc = [p \in Procs |-> "idle"]
    /\ arg = [p \in Procs |-> Absent]
    /\ lastSeen = ""
    /\ gui = LoadClipboardData(Stocked, TRUE).data
    /\ last = Last("init", "")
    /\ stop = FALSE
    /\ txt = ""
    /\ cfgFile = NoConfig
    /\ cfg = DefaultConfig
    /\ clip = ""
    /\ keys = 0
    /\ view = ViewOf(LoadClipboardData(Stocked, TRUE).data)

NextView ==
    \/ \E t \in GuiTexts : Run(t, "ok")
    \/ \E query \in ViewQueries : onChanged(query)
    \/ onUp
    \/ onDown
    \/ onSubmitted
    \/ onPaste
    \/ \E io \in {"ok", "write"} : onPin(io)
    \/ \E io \in {"ok", "write"} : onDelete(io)
    \/ \E io \in {"ok", "load"} : shortcutRefresh(io)
    \/ \E io \in {"ok", "write"} : shortcutClear(io)

SpecView == InitView /\ [][NextView]_vars

\* C31: with the selection moved to row k of the shown list, Enter acts on the
\* entry shown at row k
C31_EnterActsOnSelection ==
    [][(onSubmitted /\ CanAct) => (clip' = Selected /\ last'.out = "copied")]_vars

----------------------------------------------------------------------------
\* C32: with the daemon and the GUI on one history file, the entry a daemon
\* tick captured and saved is not removed from the persisted entries by a GUI
\* delete of another entry or by a GUI pin toggle (capacity trimming aside)
C32_CapturedSurvivesGui ==
    [][\A x \in Texts :
        (/\ deleteSelected(x, "ok") \/ togglePinSelected(x, "ok")
         /\ lastSeen # x
         /\ lastSeen \in Range(Loaded.History)
         /\ Len(Loaded.History) <= MaxHistory)
            => lastSeen \in Range(Loaded'.History)]_vars

----------------------------------------------------------------------------
(* A capture tick in two steps beside the GUI: its load, then its save *)

\* a history file without pins
Unpinned == Marshal(ClipboardData(<<"a", "b">>, {}))

InitTick == InitWith(Unpinned)

\* the texts the clipboard holds during these ticks
TickTexts == {"c", "d"}

\* Run, lines 29-72: clipboard.ReadAll gives t; a tick that has something to
\* save stops after building the history, the ClipboardData it will save held
\* in arg; any other tick ends here
TickLoad(t) ==
    /\ Idle
    /\ LET ld == LoadClipboardData(file, TRUE)
           saves == /\ TrimSpace(t) # ""
                    /\ t # lastSeen
                    /\ ~ld.err
                    /\ IndexOf(ld.data.History, t) # 0
       IN IF saves
          THEN /\ pc' = [pc EXCEPT !["daemon"] = "loaded"]
               /\ arg' = [arg EXCEPT !["daemon"] =
                              SaveClipboardData(Capture(ld.data, t), TRUE, file, tmp).file]
               /\ txt' = t
               /\ last' = Last("tick", "loaded")
               /\ UNCHANGED <<file, tmp, lastSeen, stop>>
          ELSE /\ Tick(t, "ok")
               /\ UNCHANGED <<pc, arg, loop>>
    /\ UNCHANGED <<fd, gui, env>>

\* Run, lines 74-78: SaveClipboardData writes the ClipboardData of the tick
TickSave ==
    /\ pc["daemon"] = "loaded"
    /\ file' = arg["daemon"]
    /\ tmp' = Absent
    /\ lastSeen' = txt
    /\ pc' = [pc EXCEPT !["daemon"] = "idle"]
    /\ last' = Last("tick", "saved")
    /\ UNCHANGED <<fd, arg, gui, loop, env>>

NextTick ==
    \/ \E t \in TickTexts : TickLoad(t)
    \/ TickSave
    \/ \E item \in Texts : togglePinSelected(item, "ok")
    \/ \E item \in Texts : deleteSelected(item, "ok")
    \/ clearAll("ok")
    \/ refreshHistory("ok")

SpecTick == InitTick /\ [][NextTick]_vars

\* C33: a text that a pin toggle pinned stays in the persisted pinned set
\* until it is unpinned, deleted or the history is cleared; a capture tick
\* that interleaves with the toggle does not write the pinned set without it
C33_PinStays ==
    [][\A x \in Texts :
        (x \in file.pinned /\ x \notin file'.pinned)
            => last'.op \in {"pin", "delete", "clear"}]_vars

----------------------------------------------------------------------------
(* The daemon while the clipboard keeps holding one text *)

\* the text the clipboard keeps holding
Held == "d"

\* the GUI's deletes and pin toggles of other entries, its refreshes, and the
\* ticks, each of which reads Held; a tick's calls can fail
NextHeld ==
    \/ \E io \in IO : Run(Held, io)
    \/ \E item \in Texts \ {Held} : deleteSelected(item, "ok")
    \/ \E item \in Texts : togglePinSelected(item, "ok")
    \/ refreshHistory("ok")

\* the ticker keeps firing, and a tick whose calls all succeed comes again
\* and again
SpecHeld == InitGui /\ [][NextHeld]_vars /\ WF_vars(Run(Held, "ok"))

\* C34: when the clipboard keeps holding a non-blank text, its reads, loads
\* and saves succeed in the end, and the user neither deletes the text nor
\* clears the history, the text is in the persisted entries from some moment
\* on for ever, also when another process overwrites the file with an older
\* snapshot
C34_HeldTextStays == <>[](Held \in Range(file.history))

----------------------------------------------------------------------------
\* C35: capture ticks, deletes, clears and pin toggles of entries present at
\* toggle time leave no orphaned pin: every text of the persisted pinned set
\* is one of the persisted entries
C35_NoOrphanedPins ==
    [][(Pinned \subseteq Range(Entries) /\ last'.out # "absent")
          => file'.pinned \subseteq Range(file'.history)]_vars

----------------------------------------------------------------------------
\* C36: after every action of the GUI, every index stored in filtered is a
\* valid index of the current sortedHist, and with an empty search query
\* filtered lists every entry of sortedHist once and in order
C36_FilteredFitsView ==
    /\ \A i \in 1..Len(view.filtered) :
          view.filtered[i] \in 0..(Len(view.sortedHist) - 1)
    /\ TrimQuery(view.text) = <<>> =>
          view.filtered = [i \in 1..Len(view.sortedHist) |-> i - 1]

----------------------------------------------------------------------------
\* C37: copy, paste, pin and delete act only when 0 <= selectedIndex <
\* len(filtered) and filtered[selectedIndex] < len(sortedHist), and change
\* nothing otherwise; move up and move down leave filtered alone and keep
\* selectedIndex at 0 or above and below len(filtered)
C37_SelectionInRange ==
    [][/\ last'.op \in {"paste", "pin", "delete"} =>
            IF CanAct
            THEN last'.out # "none"
            ELSE /\ last'.out = "none"
                 /\ UNCHANGED <<file, tmp, gui, view, pc, clip, keys>>
       /\ last'.op = "submit" =>
            IF Len(view.filtered) > 0 /\ view.filtered[1] < Len(view.sortedHist)
            THEN clip' = view.sortedHist[view.filtered[1] + 1]
            ELSE last'.out = "none" /\ UNCHANGED <<file, tmp, gui, clip, keys>>
       /\ last'.op \in {"moveUp", "moveDown"} =>
            /\ view'.filtered = view.filtered
            /\ view'.sortedHist = view.sortedHist
            /\ view'.selectedIndex \in {view.selectedIndex - 1, view.selectedIndex,
                                        view.selectedIndex + 1}
       /\ view'.selectedIndex >= 0
       /\ Len(view'.filtered) > 0 => view'.selectedIndex < Len(view'.filtered)]_vars

\* Delete pressed on the third row after a clear emptied the ordered view
C37_Witness ==
    /\ last = Last("delete", "none")
    /\ view.selectedIndex = 2
    /\ Len(view.filtered) = 3
    /\ view.sortedHist = <<>>

----------------------------------------------------------------------------
\* C38: a capture tick whose load of the history file fails writes nothing to
\* the history file and leaves lastSeen as it was, so that the same text is
\* tried again at the next tick; the unreadable history is not replaced by a
\* fresh one holding the new text only
C38_FailedLoadWritesNothing ==
    [][\A t \in LoopTexts :
        (/\ Run(t, "load")
         /\ file.kind # "absent"
         /\ TrimSpace(t) # ""
         /\ t # lastSeen)
            => /\ last' = Last("tick", "load")
               /\ file' = file
               /\ tmp' = tmp
               /\ lastSeen' = lastSeen
               /\ t # lastSeen']_vars

\* a tick could not load a history that holds entries
C38_Witness ==
    /\ last = Last("tick", "load")
    /\ Len(file.history) >= 2
    /\ lastSeen # ""

----------------------------------------------------------------------------
\* the list the Save command hands to SaveHistory when the clipboard holds t
GivenList(t) ==
    IF Loaded.History = <<>> \/ Loaded.History[1] # t
    THEN <<t>> \o Loaded.History
    ELSE Loaded.History

\* C39: SaveHistory with a list of at most MaxHistory entries, the previous
\* file being loadable, replaces the persisted entries by exactly that list
\* and leaves the persisted pinned set as it was
C39_SaveHistoryKeepsPins ==
    [][\A t \in CmdTexts :
        (/\ Save(t, "ok")
         /\ last'.out \in {"added", "known", "top"}
         /\ Len(GivenList(t)) <= MaxHistory)
            => /\ file'.kind = "object"
               /\ Loaded'.History = GivenList(t)
               /\ Loaded'.Pinned = Loaded.Pinned]_vars

\* a Save command added a text to a history that has a pinned entry
C39_Witness ==
    /\ last = Last("save", "added")
    /\ file.pinned # {}
    /\ Len(file.history) \in 2..MaxHistory

====
